---- MODULE Spec2Model ----
(***************************************************************************)
(* peak_parameters.py: a sweep of r.param.scale over window sizes and      *)
(* slope thresholds, the evaluation of the peaks it finds against training *)
(* peaks, the three-axis results container and its export.                 *)
(*                                                                         *)
(* The script is a Python 2 / GRASS 6 script (csv file opened 'wb',        *)
(* g.remove rast=/vect=): '/' on two ints is floor division, and           *)
(* grass.run_command returns the exit status of the module, which every    *)
(* call site discards.                                                     *)
(*                                                                         *)
(* Python values: an int is a TLA+ integer, a str a TLA+ string, a list a  *)
(* sequence.  A cell of the results matrix is <<>> (the empty list it is   *)
(* created with) or <<v>> (the number v stored in it).  The elements of    *)
(* slope_thresholds are tagged, [int |-> n] or [str |-> s], because        *)
(* Exporter.stdout overwrites the ints of that list with strings.          *)
(***************************************************************************)
EXTENDS Integers, Sequences, FiniteSets, TLC

\* ------------------------------------------------------------------ bounds
\* the largest number of (window, threshold) combinations of a sweep
MaxCells == 2
\* the largest number of lines v.db.select prints
MaxCount == 1
\* the largest count handed to summarize on its own
MaxTally == 8
\* the largest number of add_error calls made on a container on its own
MaxAdds == 2
\* the largest number of combinations of a sweep followed on its own
MaxSweep == 4

\* the first answers of the options window_sizes and slope_thresholds
WindowAnswers == <<3, 5>>
ThresholdAnswers == <<1, 2>>

VARIABLES
    flags,             \* the parser's flag dictionary: t, f, n, s, l
    options,           \* the parser's options window_sizes and slope_thresholds, as lists
    window_sizes,      \* PeakAnalyst.window_sizes, the list shared with the container
    slope_thresholds,  \* PeakAnalyst.slope_thresholds, the list shared with the container
    error_values,      \* PeakAnalyst.error_values, the list shared with the container
    window,            \* ResultsContainer.window, the three dimensional matrix
    found_peaks,       \* PeakAnalyst.found_peaks
    rasters,           \* the raster maps of the mapset (its vector maps are left out)
    tmp_files,         \* the files in the working directory
    csv,               \* the files of the export directory: name -> rows written
    closed,            \* the csv files that exportToCsv has closed
    console,           \* the lines printed
    pc,                \* the statement the script is at
    loop,              \* the loop counters: w, s (find_peaks), e (error value), p (peak map)
    count,             \* the count taken from v.db.select, not yet added
    writes,            \* history: how often each cell of the matrix was assigned
    calls,             \* history: the number of toolkit calls issued
    failed,            \* history: a toolkit call has failed
    last,              \* history: the last add_error call and how it ended
    tally              \* the arguments and the result of a summarize call

vars == <<flags, options, window_sizes, slope_thresholds, error_values, window, found_peaks,
          rasters, tmp_files, csv, closed, console, pc, loop, count,
          writes, calls, failed, last, tally>>

\* ------------------------------------------------------------ Python values
PyInt(n) == [int |-> n]
PyStr(s) == [str |-> s]
IsInt(v) == DOMAIN v = {"int"}

\* str(v) of a tagged value
Str(v) == IF IsInt(v) THEN ToString(v.int) ELSE v.str

Range(s) == {s[i] : i \in DOMAIN s}

\* list.index(x): the first position of x, 0 for the ValueError of an absent x
Index(s, x) ==
    IF x \in Range(s) THEN CHOOSE i \in DOMAIN s : s[i] = x /\ \A j \in 1..(i - 1) : s[j] # x
    ELSE 0

\* list.remove(x): s without the first x
Remove(s, x) ==
    LET i == Index(s, x)
    IN  IF i = 0 THEN s ELSE SubSeq(s, 1, i - 1) \o SubSeq(s, i + 1, Len(s))

\* list.reverse()
RECURSIVE Reverse(_)
Reverse(s) == IF s = <<>> THEN <<>> ELSE Reverse(Tail(s)) \o <<Head(s)>>

\* str.ljust(length) and str.rjust(length): pad with spaces, never truncate
RECURSIVE ljust(_, _)
ljust(s, length) == IF Len(s) >= length THEN s ELSE ljust(s \o " ", length)
RECURSIVE rjust(_, _)
rjust(s, length) == IF Len(s) >= length THEN s ELSE rjust(" " \o s, length)

\* ''.join(x for x in s)
RECURSIVE join(_)
join(s) == IF s = <<>> THEN "" ELSE Head(s) \o join(Tail(s))

\* the lists that hold the first k of the answers, k >= 1, in any order
Lists(answers) ==
    UNION {{s \in [1..k -> {answers[i] : i \in 1..k}] :
               \A i \in 1..k : \E j \in 1..k : s[j] = answers[i]} : k \in 1..Len(answers)}

\* --------------------------------------------------------- parse_error_values
FlagKeys == {"t", "f", "n", "s", "l"}
\* orders in which a dictionary may list its keys
KeyOrders == {<<"t", "f", "n", "s", "l">>, <<"l", "s", "n", "f", "t">>, <<"s", "l", "t", "f", "n">>}

Replaced(ev, key, text) == IF key \in Range(ev) THEN Append(Remove(ev, key), text) ELSE ev

parse_error_values(fl, keys) ==
    LET set == SelectSeq(keys, LAMBDA k : fl[k])
        e1 == Replaced(set, "t", "true positives")
        e2 == Replaced(e1, "f", "false positives")
        e3 == Replaced(e2, "n", "false negatives")
    IN  Replaced(e3, "s", "summarize")

\* ------------------------------------------------------------------ summarize
\* summarize with 0 returned where tp + fn is 0
summarize_zero(tp, fp, fn) ==
    IF tp + fn = 0 THEN 0 ELSE tp \div (tp + fn) - fp \div (tp + fn)

\* tp / (tp + fn) - fp / (tp + fn) on ints: each quotient is floored
summarize(tp, fp, fn) ==
    LET sensitivity == IF tp + fn = 0 THEN tp \div 1 ELSE tp \div (tp + fn)
        falsepeaks_ratio == IF tp + fn = 0 THEN fp \div 1 ELSE fp \div (tp + fn)
    IN  sensitivity - falsepeaks_ratio

\* ------------------------------------------------------------ ResultsContainer
\* the matrix of ResultsContainer.__init__: every entry an empty list
EmptyMatrix(ws, st, ev) ==
    [i \in 1..Len(ws) |-> [j \in 1..Len(st) |-> [k \in 1..Len(ev) |-> <<>>]]]

NoWrites(ws, st, ev) ==
    [i \in 1..Len(ws) |-> [j \in 1..Len(st) |-> [k \in 1..Len(ev) |-> 0]]]

\* no add_error call yet
NoCall == [window_size |-> 0, slope_threshold |-> PyInt(0), error_type |-> "",
           error_value |-> 0, raised |-> FALSE, n |-> 0]

\* the assignment of add_error at the three indices looked up; 0 stands for a
\* lookup that raised ValueError, and then nothing is assigned
Assign(call, window_index, slope_index, error_index, next_pc) ==
    LET found == window_index # 0 /\ slope_index # 0 /\ error_index # 0
    IN  /\ last' = [call EXCEPT !.raised = ~found, !.n = last.n + 1]
        /\ IF found
           THEN /\ window' = [window EXCEPT
                                ![window_index][slope_index][error_index] = <<call.error_value>>]
                /\ writes' = [writes EXCEPT ![window_index][slope_index][error_index] = @ + 1]
                /\ pc' = next_pc
           ELSE /\ pc' = "crashed"
                /\ UNCHANGED <<window, writes>>
        /\ UNCHANGED <<window_sizes, slope_thresholds, error_values>>

CallOf(window_size, slope_threshold, error_type, error_value) ==
    [window_size |-> window_size, slope_threshold |-> slope_threshold,
     error_type |-> error_type, error_value |-> error_value, raised |-> FALSE, n |-> 0]

\* add_error with the error type not looked up: the first entry of the cell's list
add_error_first(window_size, slope_threshold, error_type, error_value, next_pc) ==
    Assign(CallOf(window_size, slope_threshold, error_type, error_value),
           Index(window_sizes, window_size),
           Index(slope_thresholds, slope_threshold),
           IF Index(error_values, error_type) = 0 THEN 0 ELSE 1,
           next_pc)

\* add_error with lookups that give -1, the last position, for an absent value
add_error_last(window_size, slope_threshold, error_type, error_value, next_pc) ==
    LET Find(axis, value) == IF Index(axis, value) = 0 THEN Len(axis) ELSE Index(axis, value)
    IN  Assign(CallOf(window_size, slope_threshold, error_type, error_value),
               Find(window_sizes, window_size),
               Find(slope_thresholds, slope_threshold),
               Find(error_values, error_type),
               next_pc)

\* add_error: the three lookups, then the assignment; a lookup that fails raises
\* ValueError before anything is assigned
add_error(window_size, slope_threshold, error_type, error_value, next_pc) ==
    Assign(CallOf(window_size, slope_threshold, error_type, error_value),
           Index(window_sizes, window_size),
           Index(slope_thresholds, slope_threshold),
           Index(error_values, error_type),
           next_pc)

\* ------------------------------------------------------------------ the toolkit
\* grass.run_command and grass.read_command: the module runs ("ok"), the module
\* ends with a non-zero exit status, which is returned and which no call site
\* looks at ("status"), or the call raises ("raise")
\* The runs followed are those in which at most one call fails.
Outcomes == IF failed THEN {"ok"} ELSE {"ok", "status", "raise"}

\* one call is issued; a call that raises ends the script at the call
Call(outcome, next_pc) ==
    /\ calls' = calls + 1
    /\ failed' = (failed \/ outcome # "ok")
    /\ pc' = IF outcome = "raise" THEN "aborted" ELSE next_pc

\* the maps of a combination
FeatureMap(w, s) == ToString(w) \o "_" \o Str(s)
PeakRaster(w, s) == FeatureMap(w, s) \o "_peaks"
PeakVectors_window(w, s) == "p_" \o ToString(w) \o "_peaks"
PeakVectors(w, s) == "p_" \o PeakRaster(w, s)

ReclassRules == ".tmp_reclass.txt"

\* the window size and the slope threshold of the combination find_peaks is at
CurWindow == window_sizes[loop.w]
CurSlope == slope_thresholds[loop.s]

\* ----------------------------------------------------------------------- Init
NoTally == [tp |-> 0, fp |-> 0, fn |-> 0, done |-> FALSE, result |-> 0]

\* what the parser hands to the script: the flags and the two options, each a
\* list of distinct integers
Parsed ==
    /\ flags \in [FlagKeys -> BOOLEAN]
    /\ options \in [window_sizes : Lists(WindowAnswers),
                    slope_thresholds : Lists(ThresholdAnswers)]
    /\ Len(options.window_sizes) * Len(options.slope_thresholds) <= MaxCells

\* options[key].split(',') with every entry made an int
IntList(option) == [i \in DOMAIN option |-> PyInt(option[i])]

\* the script is started: the parser has filled flags and options
Init ==
    /\ Parsed
    /\ window_sizes = <<>>
    /\ slope_thresholds = <<>>
    /\ error_values = <<>>
    /\ window = <<>>
    /\ writes = <<>>
    /\ found_peaks = <<>>
    /\ rasters = {"dem"}
    /\ tmp_files = {}
    /\ csv = <<>>
    /\ closed = {}
    /\ console = <<>>
    /\ pc = "start"
    /\ loop = [w |-> 0, s |-> 0, e |-> 0, p |-> 0]
    /\ count = 0
    /\ calls = 0
    /\ failed = FALSE
    /\ last = NoCall
    /\ tally = NoTally

\* ---------------------------------------------------------------- PeakAnalyst
\* PeakAnalyst.__init__: the two lists, the error values, g.region, the results
\* container; then main prints 'Finding peaks'
AnalystInit ==
    /\ pc = "start"
    /\ window_sizes' = options.window_sizes
    /\ slope_thresholds' = IntList(options.slope_thresholds)
    /\ \E keys \in KeyOrders, outcome \in Outcomes :
          /\ error_values' = parse_error_values(flags, keys)
          /\ Call(outcome, "find_peaks")
          /\ IF outcome = "raise"
             THEN UNCHANGED <<window, writes, console>>
             ELSE /\ window' = EmptyMatrix(window_sizes', slope_thresholds', error_values')
                  /\ writes' = NoWrites(window_sizes', slope_thresholds', error_values')
                  /\ console' = Append(console, "Finding peaks")
    /\ UNCHANGED <<flags, options, found_peaks, rasters, tmp_files, csv, closed, loop, count, last, tally>>

\* find_peaks up to its loops: the reclass table is written, found_peaks emptied
FindPeaksBegin ==
    /\ pc = "find_peaks"
    /\ tmp_files' = tmp_files \cup {ReclassRules}
    /\ found_peaks' = <<>>
    /\ loop' = [loop EXCEPT !.w = 1, !.s = 1]
    /\ pc' = "r.param.scale"
    /\ UNCHANGED <<flags, options, window_sizes, slope_thresholds, error_values, window, rasters,
                   csv, closed, console, count, writes, calls, failed, last, tally>>

\* r.param.scale writes the feature map of the combination
ParamScale ==
    /\ pc = "r.param.scale"
    /\ \E outcome \in Outcomes :
          /\ Call(outcome, "r.reclass")
          /\ rasters' = IF outcome = "ok" THEN rasters \cup {FeatureMap(CurWindow, CurSlope)}
                        ELSE rasters
    /\ UNCHANGED <<flags, options, window_sizes, slope_thresholds, error_values, window, found_peaks,
                   tmp_files, csv, closed, console, loop, count, writes, last, tally>>

\* r.reclass writes the peak raster of the combination
Reclass ==
    /\ pc = "r.reclass"
    /\ \E outcome \in Outcomes :
          /\ Call(outcome, "r.to.vect")
          /\ rasters' = IF outcome = "ok" THEN rasters \cup {PeakRaster(CurWindow, CurSlope)}
                        ELSE rasters
    /\ UNCHANGED <<flags, options, window_sizes, slope_thresholds, error_values, window, found_peaks,
                   tmp_files, csv, closed, console, loop, count, writes, last, tally>>

\* r.to.vect writes the peak areas; the combination is added to found_peaks
ToVect ==
    /\ pc = "r.to.vect"
    /\ \E outcome \in Outcomes :
          /\ Call(outcome, "cleanup")
          /\ found_peaks' = IF outcome = "raise" THEN found_peaks
                            ELSE Append(found_peaks,
                                        <<CurWindow, CurSlope, PeakVectors(CurWindow, CurSlope)>>)
    /\ UNCHANGED <<flags, options, window_sizes, slope_thresholds, error_values, window, rasters,
                   tmp_files, csv, closed, console, loop, count, writes, last, tally>>

\* the loops of find_peaks go on to the next combination; after the last one the
\* reclass table is deleted and main prints 'Extracting error values...'
NextCombination ==
    IF loop.s < Len(slope_thresholds)
    THEN /\ loop' = [loop EXCEPT !.s = @ + 1]
         /\ pc' = "r.param.scale"
         /\ UNCHANGED <<tmp_files, console>>
    ELSE IF loop.w < Len(window_sizes)
    THEN /\ loop' = [loop EXCEPT !.w = @ + 1, !.s = 1]
         /\ pc' = "r.param.scale"
         /\ UNCHANGED <<tmp_files, console>>
    ELSE /\ loop' = [loop EXCEPT !.e = 1]
         /\ tmp_files' = tmp_files \ {ReclassRules}
         /\ console' = Append(console, "Extracting error values...")
         /\ pc' = "evaluate_peaks"

\* cleanup deletes the maps unless the flag l is set
Retain_inverted == ~flags["l"]
Retain == flags["l"]

\* cleanup with flag l: nothing is deleted
CleanupKeep ==
    /\ pc = "cleanup"
    /\ Retain
    /\ NextCombination
    /\ UNCHANGED <<flags, options, window_sizes, slope_thresholds, error_values, window, found_peaks,
                   rasters, csv, closed, count, writes, calls, failed, last, tally>>

\* cleanup without flag l: g.remove of the peak raster
CleanupPeakRaster ==
    /\ pc = "cleanup"
    /\ ~Retain
    /\ \E outcome \in Outcomes :
          /\ Call(outcome, "cleanup2")
          /\ rasters' = IF outcome = "ok" THEN rasters \ {PeakRaster(CurWindow, CurSlope)}
                        ELSE rasters
    /\ UNCHANGED <<flags, options, window_sizes, slope_thresholds, error_values, window, found_peaks,
                   tmp_files, csv, closed, console, loop, count, writes, last, tally>>

\* cleanup without flag l: g.remove of the feature map, the last statement of the
\* loop body
CleanupFeatureMap ==
    /\ pc = "cleanup2"
    /\ \E outcome \in Outcomes :
          /\ calls' = calls + 1
          /\ failed' = (failed \/ outcome # "ok")
          /\ rasters' = IF outcome = "ok" THEN rasters \ {FeatureMap(CurWindow, CurSlope)}
                        ELSE rasters
          /\ IF outcome = "raise"
             THEN pc' = "aborted" /\ UNCHANGED <<loop, tmp_files, console>>
             ELSE NextCombination
    /\ UNCHANGED <<flags, options, window_sizes, slope_thresholds, error_values, window, found_peaks,
                   csv, closed, count, writes, last, tally>>

\* ------------------------------------------------------------------ evaluation
\* evaluate_peaks without its last branch
CountKinds_short == {"true positives", "false positives"}

\* the error values evaluate_peaks has a method for
CountKinds == {"true positives", "false positives", "false negatives"}

\* the vector map a count method selects into
SelectedMap(error_value) ==
    CASE error_value = "true positives" -> "true_positives"
      [] error_value = "false positives" -> "false_positives"
      [] error_value = "false negatives" -> "false_negatives"

\* the error value main's loop is at, and the peak map the count method is at
CurError == error_values[loop.e]
CurPeakMap == found_peaks[loop.p]

\* main's loop over the error values calls evaluate_peaks, which calls the method
\* of a count kind and does nothing for any other error value; after the last
\* error value main prints 'Writing results to file...' and makes the Exporter
EvaluatePeaks ==
    /\ pc = "evaluate_peaks"
    /\ IF loop.e > Len(error_values)
       THEN /\ console' = Append(console, "Writing results to file...")
            /\ loop' = [loop EXCEPT !.e = 1]
            /\ pc' = "exportToCsv"
       ELSE /\ console' = console
            /\ IF CurError \in CountKinds /\ found_peaks # <<>>
               THEN loop' = [loop EXCEPT !.p = 1] /\ pc' = "v.select"
               ELSE loop' = [loop EXCEPT !.e = @ + 1] /\ pc' = "evaluate_peaks"
    /\ UNCHANGED <<flags, options, window_sizes, slope_thresholds, error_values, window, found_peaks,
                   rasters, tmp_files, csv, closed, count, writes, calls, failed,
                   last, tally>>

\* v.select writes the selected features to the map of the count kind
VSelect ==
    /\ pc = "v.select"
    /\ \E outcome \in Outcomes :
          /\ Call(outcome, "v.db.select")
    /\ UNCHANGED <<flags, options, window_sizes, slope_thresholds, error_values, window, found_peaks,
                   rasters, tmp_files, csv, closed, console, loop, count, writes, last, tally>>

\* v.db.select prints one line per feature, the count is the number of lines; a
\* module that fails prints none
VDbSelect ==
    /\ pc = "v.db.select"
    /\ \E outcome \in Outcomes :
          /\ Call(outcome, "g.remove")
          /\ IF outcome = "ok" THEN count' \in 0..MaxCount
             ELSE IF outcome = "status" THEN count' = 0
             ELSE count' = count
    /\ UNCHANGED <<flags, options, window_sizes, slope_thresholds, error_values, window, found_peaks,
                   rasters, tmp_files, csv, closed, console, loop, writes, last,
                   tally>>

\* g.remove deletes the map of the count kind
GRemoveVect ==
    /\ pc = "g.remove"
    /\ \E outcome \in Outcomes :
          /\ Call(outcome, "add_error")
    /\ UNCHANGED <<flags, options, window_sizes, slope_thresholds, error_values, window, found_peaks,
                   rasters, tmp_files, csv, closed, console, loop, count, writes, last, tally>>

\* the count goes to the results container; the method goes on to the next peak
\* map and returns to main's loop after the last one
AddError ==
    /\ pc = "add_error"
    /\ add_error(CurPeakMap[1], CurPeakMap[2], CurError, count,
                 IF loop.p < Len(found_peaks) THEN "v.select" ELSE "evaluate_peaks")
    /\ loop' = IF pc' = "crashed" THEN loop
               ELSE IF loop.p < Len(found_peaks) THEN [loop EXCEPT !.p = @ + 1]
               ELSE [loop EXCEPT !.e = @ + 1]
    /\ count' = 0
    /\ UNCHANGED <<flags, options, found_peaks, rasters, tmp_files, csv, closed, console,
                   calls, failed, tally>>

\* -------------------------------------------------------------------- Exporter
\* options['export_directory'], with the '/' that Exporter.__init__ adds
ExportDirectory == "out/"

\* error_flag.replace(' ', '_') for the error values there are
Underscored(error_flag) ==
    CASE error_flag = "true positives" -> "true_positives"
      [] error_flag = "false positives" -> "false_positives"
      [] error_flag = "false negatives" -> "false_negatives"
      [] OTHER -> error_flag

ExportPath(error_flag) == ExportDirectory \o Underscored(error_flag) \o ".csv"

\* str() of an entry of the matrix
CellStr(cell) == IF cell = <<>> THEN "[]" ELSE ToString(cell[1])

\* the positions of the three count kinds on the container's axis, 0 where
\* list.index raises ValueError
tp_index == Index(error_values, "true positives")
fp_index == Index(error_values, "false positives")
fn_index == Index(error_values, "false negatives")
IndexRaises == tp_index = 0 \/ fp_index = 0 \/ fn_index = 0

\* summarize needs three numbers: an entry that is still an empty list raises
\* TypeError
Filled(w, s) ==
    /\ window[w][s][tp_index] # <<>>
    /\ window[w][s][fp_index] # <<>>
    /\ window[w][s][fn_index] # <<>>

Summary(w, s) ==
    summarize(window[w][s][tp_index][1], window[w][s][fp_index][1], window[w][s][fn_index][1])

\* the header with 'window_size' appended and the list not reversed
Header_appended ==
    Append([i \in DOMAIN slope_thresholds |-> "threshold_" \o Str(slope_thresholds[i])],
           "window_size")

\* the header of exportToCsv: the labels of the thresholds, 'window_size' put in
\* front by reverse, append, reverse
Header ==
    LET header == [i \in DOMAIN slope_thresholds |-> "threshold_" \o Str(slope_thresholds[i])]
    IN  Reverse(Append(Reverse(header), "window_size"))

\* the strings exportToCsv accepts as errTag
ErrTags == {"summarize", "true positives", "false positives", "false negatives"}

\* the statement of exportToCsv's inner loop raises for window w: an errTag that
\* is none of the four, or a summary of an entry that is not filled
CsvRowRaises(errTag, w) ==
    /\ window[w] # <<>>
    /\ \/ errTag \notin ErrTags
       \/ errTag = "summarize" /\ \E s \in DOMAIN window[w] : ~Filled(w, s)

\* errList of window w as csv.writer writes it
CsvRow(errTag, w) ==
    <<ToString(window_sizes[w])>> \o
    [s \in DOMAIN window[w] |->
        IF errTag = "summarize" THEN ToString(Summary(w, s))
        ELSE CellStr(window[w][s][Index(error_values, errTag)])]

\* the windows exportToCsv gets through: all of them, or those before the first
\* one that raises
CsvWindows(errTag) ==
    LET bad == {w \in DOMAIN window : CsvRowRaises(errTag, w)}
    IN  IF bad = {} THEN DOMAIN window
        ELSE {w \in DOMAIN window : \A b \in bad : w < b}

\* exportToCsv(errTag, export_path): the lookups, the file, the header, one row
\* per window, close
exportToCsv(errTag, export_path) ==
    IF IndexRaises
    THEN /\ pc' = "crashed"
         /\ UNCHANGED <<csv, closed>>
    ELSE LET done == CsvWindows(errTag)
             rows == <<Header>> \o [w \in 1..Cardinality(done) |-> CsvRow(errTag, w)]
         IN  /\ csv' = [name \in DOMAIN csv \cup {export_path} |->
                           IF name = export_path THEN rows ELSE csv[name]]
             /\ IF done = DOMAIN window
                THEN closed' = closed \cup {export_path} /\ pc' = "exportToCsv"
                ELSE closed' = closed \ {export_path} /\ pc' = "crashed"

\* Exporter.__init__: one exportToCsv per error value of its own parse of the flags
ExportToCsv ==
    /\ pc = "exportToCsv"
    /\ \E keys \in KeyOrders :
          LET own == parse_error_values(flags, keys)
          IN  /\ loop.e <= Len(own)
              /\ exportToCsv(own[loop.e], ExportPath(own[loop.e]))
    /\ loop' = IF pc' = "crashed" THEN loop ELSE [loop EXCEPT !.e = @ + 1]
    /\ UNCHANGED <<flags, options, window_sizes, slope_thresholds, error_values, window, found_peaks,
                   rasters, tmp_files, console, count, writes, calls, failed, last,
                   tally>>

\* setField(arg): str(arg).ljust(length); the branch for a float is never taken,
\* the counts and the summaries of counts are ints
setField(arg) == ljust(arg, 7)

xlabel == "t h r e s h o l d"
\* 'w i n d o w'.split()
ylabel == <<"w", "i", "n", "d", "o", "w">>

\* the list stdout leaves in container.slope_thresholds: every entry replaced by
\* its field, the two blank fields put in front by reverse, append, append, reverse
Fields ==
    LET thresholds == [i \in DOMAIN slope_thresholds |->
                          PyStr(setField(Str(slope_thresholds[i])))]
    IN  Reverse(Append(Append(Reverse(thresholds), PyStr("       ")), PyStr("   ")))

\* the line of window w: the letter of the label, the window size, the summaries
StdoutRow(w) ==
    <<IF w <= Len(ylabel) THEN ljust(ylabel[w], 3) ELSE "   ">> \o
    <<setField(ToString(window_sizes[w]))>> \o
    [s \in DOMAIN window[w] |-> setField(ToString(Summary(w, s)))]

StdoutWindows ==
    LET bad == {w \in DOMAIN window : \E s \in DOMAIN window[w] : ~Filled(w, s)}
    IN  IF bad = {} THEN DOMAIN window
        ELSE {w \in DOMAIN window : \A b \in bad : w < b}

\* Exporter.stdout, after the last exportToCsv: the lookups, the two label lines,
\* the line of the thresholds, one line per window, the letters left over
Stdout ==
    /\ pc = "exportToCsv"
    /\ \E keys \in KeyOrders : loop.e > Len(parse_error_values(flags, keys))
    /\ IF IndexRaises
       THEN /\ pc' = "crashed"
            /\ UNCHANGED <<slope_thresholds, console>>
       ELSE LET done == StdoutWindows
                n == Cardinality(done)
            IN  /\ slope_thresholds' = Fields
                /\ console' =
                      console
                      \o <<"Summarized error values:", "", rjust(xlabel, 36)>>
                      \o <<join([i \in DOMAIN Fields |-> Fields[i].str])>>
                      \o [w \in 1..n |-> join(StdoutRow(w))]
                      \o (IF done = DOMAIN window
                          THEN SubSeq(ylabel, n + 1, Len(ylabel)) ELSE <<>>)
                /\ pc' = IF done = DOMAIN window THEN "done" ELSE "crashed"
    /\ UNCHANGED <<flags, options, window_sizes, error_values, window, found_peaks, rasters, tmp_files, csv, closed, loop, count, writes, calls, failed, last, tally>>

\* ------------------------------------------------------------------------ Spec
Next ==
    \/ AnalystInit
    \/ FindPeaksBegin
    \/ ParamScale
    \/ Reclass
    \/ ToVect
    \/ CleanupKeep
    \/ CleanupPeakRaster
    \/ CleanupFeatureMap
    \/ EvaluatePeaks
    \/ VSelect
    \/ VDbSelect
    \/ GRemoveVect
    \/ AddError
    \/ ExportToCsv
    \/ Stdout

Spec == Init /\ [][Next]_vars

\* ------------------------------------------------- a results container on its own
\* a container made from parsed lists and flags, before anything is added
InitContainer ==
    /\ Parsed
    /\ window_sizes = options.window_sizes
    /\ slope_thresholds = IntList(options.slope_thresholds)
    /\ \E keys \in KeyOrders : error_values = parse_error_values(flags, keys)
    /\ window = EmptyMatrix(window_sizes, slope_thresholds, error_values)
    /\ writes = NoWrites(window_sizes, slope_thresholds, error_values)
    /\ found_peaks = <<>>
    /\ rasters = {"dem"}
    /\ tmp_files = {}
    /\ csv = <<>>
    /\ closed = {}
    /\ console = <<>>
    /\ pc = "container"
    /\ loop = [w |-> 0, s |-> 0, e |-> 0, p |-> 0]
    /\ count = 0
    /\ calls = 0
    /\ failed = FALSE
    /\ last = NoCall
    /\ tally = NoTally

\* the error types a caller may name
ErrorTypes == {"true positives", "false positives", "false negatives", "summarize", "l"}

\* add_error called with any window size, slope threshold, error type and value,
\* on the axes or not
AddErrorCall ==
    /\ pc = "container"
    /\ last.n < MaxAdds
    /\ \E window_size \in Range(WindowAnswers), threshold \in Range(ThresholdAnswers),
          error_type \in ErrorTypes, error_value \in 0..MaxCount :
          add_error(window_size, PyInt(threshold), error_type, error_value, "container")
    /\ UNCHANGED <<flags, options, found_peaks, rasters, tmp_files, csv, closed, console, loop, count,
                   calls, failed, tally>>

SpecContainer == InitContainer /\ [][AddErrorCall]_vars

\* ------------------------------------------------------------ summarize on its own
InitSummarize ==
    /\ flags = [k \in FlagKeys |-> FALSE]
    /\ options = [window_sizes |-> <<>>, slope_thresholds |-> <<>>]
    /\ window_sizes = <<>>
    /\ slope_thresholds = <<>>
    /\ error_values = <<>>
    /\ window = <<>>
    /\ writes = <<>>
    /\ found_peaks = <<>>
    /\ rasters = {"dem"}
    /\ tmp_files = {}
    /\ csv = <<>>
    /\ closed = {}
    /\ console = <<>>
    /\ pc = "summarize"
    /\ loop = [w |-> 0, s |-> 0, e |-> 0, p |-> 0]
    /\ count = 0
    /\ calls = 0
    /\ failed = FALSE
    /\ last = NoCall
    /\ tally \in [tp : 0..MaxTally, fp : 0..MaxTally, fn : 0..MaxTally,
                  done : {FALSE}, result : {0}]

\* summarize(tp, fp, fn) is called and returns
SummarizeCall ==
    /\ pc = "summarize"
    /\ tally' = [tally EXCEPT !.done = TRUE, !.result = summarize(tally.tp, tally.fp, tally.fn)]
    /\ pc' = "summarized"
    /\ UNCHANGED <<flags, options, window_sizes, slope_thresholds, error_values, window, found_peaks,
                   rasters, tmp_files, csv, closed, console, loop, count, writes, calls,
                   failed, last>>

SpecSummarize == InitSummarize /\ [][SummarizeCall]_vars

\* ------------------------------------------------------------ find_peaks on its own
\* a PeakAnalyst has been made and main has printed 'Finding peaks': the sweep is
\* about to start, over up to MaxSweep combinations
InitSweep ==
    /\ flags \in [FlagKeys -> BOOLEAN]
    /\ options \in [window_sizes : Lists(WindowAnswers),
                    slope_thresholds : Lists(ThresholdAnswers)]
    /\ Len(options.window_sizes) * Len(options.slope_thresholds) <= MaxSweep
    /\ window_sizes = options.window_sizes
    /\ slope_thresholds = IntList(options.slope_thresholds)
    /\ \E keys \in KeyOrders : error_values = parse_error_values(flags, keys)
    /\ window = EmptyMatrix(window_sizes, slope_thresholds, error_values)
    /\ writes = NoWrites(window_sizes, slope_thresholds, error_values)
    /\ found_peaks = <<>>
    /\ rasters = {"dem"}
    /\ tmp_files = {}
    /\ csv = <<>>
    /\ closed = {}
    /\ console = <<"Finding peaks">>
    /\ pc = "find_peaks"
    /\ loop = [w |-> 0, s |-> 0, e |-> 0, p |-> 0]
    /\ count = 0
    /\ calls = 1
    /\ failed \in BOOLEAN
    /\ last = NoCall
    /\ tally = NoTally

\* the steps of find_peaks
FindPeaks ==
    \/ FindPeaksBegin
    \/ ParamScale
    \/ Reclass
    \/ ToVect
    \/ CleanupKeep
    \/ CleanupPeakRaster
    \/ CleanupFeatureMap

SpecSweep == InitSweep /\ [][FindPeaks]_vars

\* ====================================================================== claims
\* the readable string of an error flag
Label(key) ==
    CASE key = "t" -> "true positives"
      [] key = "f" -> "false positives"
      [] key = "n" -> "false negatives"
      [] key = "s" -> "summarize"

ErrorFlags == {"t", "f", "n", "s"}
Counted == {"true positives", "false positives", "false negatives"}

\* C1: for counts with tp + fn > 0, summarize returns exactly
\* tp/(tp+fn) - fp/(tp+fn): result * (tp + fn) = tp - fp.
C1_SummarizeIsExactRatio ==
    (tally.done /\ tally.tp + tally.fn > 0)
        => tally.result * (tally.tp + tally.fn) = tally.tp - tally.fp

\* C2: summarize(0, fp, 0) returns -fp for every fp >= 0.
C2_ZeroDenominatorFallback ==
    (tally.done /\ tally.tp = 0 /\ tally.fn = 0) => tally.result = 0 - tally.fp

C2_Witness ==
    tally.done /\ tally.tp = 0 /\ tally.fn = 0 /\ tally.fp = 3 /\ tally.result = 0 - 3

\* the Exporter was made: sweep and evaluation are complete
ExporterMade == "Writing results to file..." \in Range(console)

\* C3: whatever error kinds are selected, once sweep and evaluation are complete
\* the run ends with a closed csv file for each selected kind and with the table
\* printed.
C3_OneCsvPerSelectedKind ==
    (ExporterMade /\ pc \in {"done", "crashed"})
        => \A key \in ErrorFlags :
              flags[key] => (ExportPath(Label(key)) \in closed /\ pc = "done")

\* C4: the error value axis holds the labels of the error flags that are set and
\* nothing else, whatever the flag l is.
C4_AxisHoldsSelectedKinds ==
    pc # "start" => Range(error_values) = {Label(key) : key \in {k \in ErrorFlags : flags[k]}}

\* the evaluation is over: main's loop over the error values has ended
EvaluationOver == pc \in {"exportToCsv", "done", "crashed"}

Cells == {<<i, j, k>> \in (DOMAIN window) \X (1..Len(options.slope_thresholds))
                          \X (DOMAIN error_values) : TRUE}

\* C5 as stated: all cells start empty, and when the evaluation is over every
\* cell of every error kind of the axis, summarize included, has been assigned
\* exactly once.
C5_EveryCellWrittenOnce ==
    /\ pc = "find_peaks" => \A c \in Cells : window[c[1]][c[2]][c[3]] = <<>>
    /\ EvaluationOver =>
          \A c \in Cells :
             error_values[c[3]] \in Counted \cup {"summarize"} => writes[c[1]][c[2]][c[3]] = 1

\* C5 as amended: all cells start empty, no cell is ever assigned twice, and when
\* the evaluation is over every cell of a count kind (true positives, false
\* positives, false negatives) has been assigned exactly once and holds a
\* number, while every cell of another entry of the axis is still empty.
C5_CountCellsWrittenOnce ==
    /\ pc = "find_peaks" => \A c \in Cells : window[c[1]][c[2]][c[3]] = <<>>
    /\ \A c \in Cells : writes[c[1]][c[2]][c[3]] <= 1
    /\ EvaluationOver =>
          \A c \in Cells :
             IF error_values[c[3]] \in Counted
             THEN writes[c[1]][c[2]][c[3]] = 1 /\ Len(window[c[1]][c[2]][c[3]]) = 1
             ELSE writes[c[1]][c[2]][c[3]] = 0 /\ window[c[1]][c[2]][c[3]] = <<>>

C5_Witness ==
    /\ pc = "done"
    /\ "summarize" \in Range(error_values)
    /\ Len(window_sizes) = 2
    /\ \E c \in Cells : window[c[1]][c[2]][c[3]] = <<1>>

\* the position of a value on an axis of distinct values
Pos(axis, value) == CHOOSE i \in DOMAIN axis : axis[i] = value

OnAxes(call) ==
    /\ call.window_size \in Range(window_sizes)
    /\ call.slope_threshold \in Range(slope_thresholds)
    /\ call.error_type \in Range(error_values)

\* C6: after add_error with a window size, a slope threshold and an error kind
\* that are on the axes, the cell at their positions holds the value added.
C6_AddErrorRoundTrip ==
    (last.n > 0 /\ OnAxes(last))
        => /\ ~last.raised
           /\ window[Pos(window_sizes, last.window_size)]
                    [Pos(slope_thresholds, last.slope_threshold)]
                    [Pos(error_values, last.error_type)] = <<last.error_value>>

C6_Witness ==
    /\ last.n = 2
    /\ OnAxes(last)
    /\ last.error_value = 1
    /\ Len(window_sizes) = 2
    /\ Pos(window_sizes, last.window_size) = 2
    /\ Len(error_values) >= 3
    /\ Pos(error_values, last.error_type) = 3

\* C7: add_error with a value that is not on its axis fails, and leaves the three
\* axes and every cell as they were.
C7_AbsentValueRaises ==
    [][(last'.n # last.n /\ ~OnAxes(last'))
          => /\ last'.raised
             /\ pc' = "crashed"
             /\ window' = window
             /\ writes' = writes
             /\ window_sizes' = window_sizes
             /\ slope_thresholds' = slope_thresholds
             /\ error_values' = error_values]_vars

C7_Witness ==
    /\ last.raised
    /\ last.n = 2
    /\ ~OnAxes(last)
    /\ \E c \in Cells : window[c[1]][c[2]][c[3]] # <<>>

\* the number a closed file of an error kind must show for a cell
Shown(kind, i, j) ==
    IF kind = "summarize"
    THEN summarize(window[i][j][Pos(error_values, "true positives")][1],
                   window[i][j][Pos(error_values, "false positives")][1],
                   window[i][j][Pos(error_values, "false negatives")][1])
    ELSE window[i][j][Pos(error_values, kind)][1]

\* C8: a csv file that exportToCsv has written and closed has a header of one
\* column more than there are slope thresholds, 'window_size' and then the
\* thresholds in the order of the option, and under it one row per window size,
\* in the order of the option: the window size, then its cells in threshold order.
C8_CsvLayout ==
    \A kind \in Counted \cup {"summarize"} :
       ExportPath(kind) \in closed =>
          LET rows == csv[ExportPath(kind)]
              ws == options.window_sizes
              st == options.slope_thresholds
          IN  /\ Len(rows) = Len(ws) + 1
              /\ Len(rows[1]) = Len(st) + 1
              /\ rows[1][1] = "window_size"
              /\ \A j \in DOMAIN st : rows[1][j + 1] = "threshold_" \o ToString(st[j])
              /\ \A i \in DOMAIN ws :
                    /\ Len(rows[i + 1]) = Len(st) + 1
                    /\ rows[i + 1][1] = ToString(ws[i])
                    /\ \A j \in DOMAIN st : rows[i + 1][j + 1] = ToString(Shown(kind, i, j))

C8_Witness ==
    /\ ExportPath("false positives") \in closed
    /\ Len(options.slope_thresholds) = 2
    /\ csv[ExportPath("false positives")][2][2] # csv[ExportPath("false positives")][2][3]

\* the feature map and the peak raster of a record of found_peaks
MapsOf(record) == {FeatureMap(record[1], record[2]), PeakRaster(record[1], record[2])}

\* the feature maps and the peak rasters of the combinations swept so far
Intermediate == UNION {MapsOf(found_peaks[i]) : i \in DOMAIN found_peaks}

\* find_peaks is at the start of a combination, or has returned
BetweenCombinations ==
    pc \in {"r.param.scale", "evaluate_peaks", "v.select", "v.db.select", "g.remove",
            "add_error", "exportToCsv", "done", "crashed"}

\* C9: as long as no toolkit call fails: the feature map and the peak raster of a
\* combination are both there when cleanup is called; without the flag l both
\* are gone before the next combination and none is left after find_peaks; with
\* the flag l none of them is removed.
C9_IntermediateRasters ==
    ~failed =>
       /\ pc = "cleanup" => MapsOf(found_peaks[Len(found_peaks)]) \subseteq rasters
       /\ (BetweenCombinations /\ ~flags["l"]) => rasters = {"dem"}
       /\ BetweenCombinations /\ flags["l"] => rasters = {"dem"} \cup Intermediate

C9_Witness ==
    /\ pc = "evaluate_peaks"
    /\ ~failed
    /\ ~flags["l"]
    /\ Len(found_peaks) = 2
    /\ rasters = {"dem"}

\* C10: once a toolkit call has failed no further toolkit call is issued, no
\* cell of the results table is written and no csv file is started.
C10_FailureAborts ==
    [][failed => (calls' = calls /\ window' = window /\ csv' = csv)]_vars

\* find_peaks has returned
FindPeaksOver == BetweenCombinations /\ pc # "r.param.scale"

\* the cross product of the two options, window sizes outside and slope
\* thresholds inside, each pair with the name made of its two values
CrossProduct ==
    LET S == Len(options.slope_thresholds)
        pair(n) == <<options.window_sizes[((n - 1) \div S) + 1],
                     options.slope_thresholds[((n - 1) % S) + 1]>>
    IN  [n \in 1..(Len(options.window_sizes) * S) |->
            <<pair(n)[1], PyInt(pair(n)[2]),
              "p_" \o ToString(pair(n)[1]) \o "_" \o ToString(pair(n)[2]) \o "_peaks">>]

\* C11: after find_peaks has returned found_peaks holds one record per pair of
\* the cross product of window sizes and slope thresholds, window by window and
\* within a window threshold by threshold; the third entry of a record is
\* p_<window>_<threshold>_peaks, and no two records have the same one.
C11_FoundPeaksIsCrossProduct ==
    FindPeaksOver =>
       /\ found_peaks = CrossProduct
       /\ \A i, j \in DOMAIN found_peaks :
             i # j => found_peaks[i][3] # found_peaks[j][3]

C11_Witness ==
    /\ FindPeaksOver
    /\ options.window_sizes = <<5, 3>>
    /\ Len(found_peaks) = 4
    /\ found_peaks[2] = <<5, PyInt(2), "p_5_2_peaks">>
    /\ found_peaks[3] = <<3, PyInt(1), "p_3_1_peaks">>

\* the Exporter is at work: the csv files are being written or the table printed
Reporting == pc = "exportToCsv"

\* C12: the Exporter only reads the results container: no step of the csv export
\* or of the console table changes the window sizes, the slope thresholds, the
\* error values or a cell of the table.
C12_ReporterOnlyReads ==
    [][Reporting => UNCHANGED <<window_sizes, slope_thresholds, error_values, window>>]_vars

====
